---- MODULE Spec2Model ----
(***************************************************************************)
(* Model of skills/tencent-tts/scripts/tts.py: the WAV container encoder   *)
(* (pcm_to_wav), the text validator (validate_text_length), the synthesis  *)
(* routine (text_to_speech) and the command-line entry point (main).       *)
(*                                                                         *)
(* Bytes are integers 0..255, byte strings are sequences of bytes.         *)
(* Optional values are sequences of length at most one: None is <<>> and   *)
(* a present value v is <<v>>.                                             *)
(* A text is kept run-length encoded: a sequence of runs [ch, n], n >= 1   *)
(* copies of the code point ch.                                            *)
(***************************************************************************)
EXTENDS Integers, Sequences, FiniteSets, TLC

VARIABLES
    pc,          \* position of the run
    encIn,       \* pcm_to_wav: argument pcm_data
    encRate,     \* pcm_to_wav: argument sample_rate
    encOut,      \* pcm_to_wav: returned bytes
    valText,     \* validate_text_length: argument text
    valRes,      \* validate_text_length: returned text or raised ValueError
    entry,       \* "main" (command line) or "direct" (text_to_speech called)
    argv,        \* sys.argv
    env,         \* os.environ
    call,        \* arguments text_to_speech was called with
    loc,         \* local variables of text_to_speech
    requests,    \* requests submitted to the service, in order
    resp,        \* response of the service
    file,        \* what this run did to the destination
    outcome,     \* how the run ended: value returned, exception, exit code, output
    trace        \* checks performed so far, in order

encVars == <<encIn, encRate, encOut>>
valVars == <<valText, valRes>>
runVars == <<entry, argv, env, call, loc, requests, resp, file, outcome, trace>>
vars == <<pc, encIn, encRate, encOut, valText, valRes,
          entry, argv, env, call, loc, requests, resp, file, outcome, trace>>

None == <<>>
Some(x) == <<x>>

-----------------------------------------------------------------------------
(* struct.pack('<I', n) and struct.pack('<H', n): little-endian unsigned.  *)

Pack32(n) ==
    << n % 256, (n \div 256) % 256, (n \div 65536) % 256, (n \div 16777216) % 256 >>

Pack16(n) ==
    << n % 256, (n \div 256) % 256 >>

TagRIFF == << 82, 73, 70, 70 >>
TagWAVE == << 87, 65, 86, 69 >>
TagFmt  == << 102, 109, 116, 32 >>
TagData == << 100, 97, 116, 97 >>

\* pcm_to_wav with the whole length, 44 + data_size, as the declared total size
pcm_to_wav_riff44(pcm_data, sample_rate) ==
    LET channels        == 1
        bits_per_sample == 16
        byte_rate       == (sample_rate * channels * bits_per_sample) \div 8
        block_align     == (channels * bits_per_sample) \div 8
        data_size       == Len(pcm_data)
    IN  TagRIFF \o Pack32(44 + data_size) \o TagWAVE \o TagFmt \o Pack32(16)
        \o Pack16(1) \o Pack16(channels) \o Pack32(sample_rate)
        \o Pack32(byte_rate) \o Pack16(block_align) \o Pack16(bits_per_sample)
        \o TagData \o Pack32(data_size) \o pcm_data

\* pcm_to_wav padding an odd payload to a whole number of samples
pcm_to_wav_pad(pcm_data, sample_rate) ==
    LET channels        == 1
        bits_per_sample == 16
        byte_rate       == (sample_rate * channels * bits_per_sample) \div 8
        block_align     == (channels * bits_per_sample) \div 8
        data_size       == Len(pcm_data)
    IN  TagRIFF \o Pack32(36 + data_size) \o TagWAVE \o TagFmt \o Pack32(16)
        \o Pack16(1) \o Pack16(channels) \o Pack32(sample_rate)
        \o Pack32(byte_rate) \o Pack16(block_align) \o Pack16(bits_per_sample)
        \o TagData \o Pack32(data_size) \o pcm_data
        \o (IF data_size % 2 = 1 THEN << 0 >> ELSE << >>)

\* pcm_to_wav as written
pcm_to_wav(pcm_data, sample_rate) ==
    LET channels        == 1
        bits_per_sample == 16
        byte_rate       == (sample_rate * channels * bits_per_sample) \div 8
        block_align     == (channels * bits_per_sample) \div 8
        data_size       == Len(pcm_data)
        wav_header      ==
            TagRIFF \o Pack32(36 + data_size) \o TagWAVE \o TagFmt \o Pack32(16)
            \o Pack16(1) \o Pack16(channels) \o Pack32(sample_rate)
            \o Pack32(byte_rate) \o Pack16(block_align) \o Pack16(bits_per_sample)
            \o TagData \o Pack32(data_size)
    IN  wav_header \o pcm_data

-----------------------------------------------------------------------------
(* Character classes of the two regular expressions and of str.strip().    *)

IsSpace(ch) ==
    \/ ch \in 9..13
    \/ ch \in 28..32
    \/ ch \in {133, 160, 5760, 8232, 8233, 8239, 8287, 12288}
    \/ ch \in 8192..8202

RECURSIVE CountChars(_, _)
\* len(re.findall(cls, text)) on a run-length encoded text
CountChars(text, cls) ==
    IF text = << >> THEN 0
    ELSE (IF Head(text).ch \in cls THEN Head(text).n ELSE 0) + CountChars(Tail(text), cls)

RECURSIVE LStrip(_)
LStrip(text) ==
    IF text # << >> /\ IsSpace(Head(text).ch) THEN LStrip(Tail(text)) ELSE text

RECURSIVE RStrip(_)
RStrip(text) ==
    IF text # << >> /\ IsSpace(text[Len(text)].ch)
    THEN RStrip(SubSeq(text, 1, Len(text) - 1))
    ELSE text

\* str.strip(): leading and trailing whitespace removed
strip(text) == RStrip(LStrip(text))

ChineseLimit == 150
EnglishLimit == 500

ChineseRange == 19968..40959                  \* [U+4E00-U+9FFF]
EnglishRange == (97..122) \cup (65..90)       \* [a-zA-Z]

Raise(kind, count, limit) ==
    [ok |-> FALSE, err |-> kind, count |-> count, limit |-> limit]

\* validate_text_length rejecting a count that only reaches its limit
validate_text_length_ge(text) ==
    LET chinese_chars   == CountChars(text, ChineseRange)
        english_letters == CountChars(text, EnglishRange)
    IN  IF chinese_chars >= ChineseLimit
        THEN Raise("ChineseTooLong", chinese_chars, ChineseLimit)
        ELSE IF english_letters >= EnglishLimit
        THEN Raise("EnglishTooLong", english_letters, EnglishLimit)
        ELSE [ok |-> TRUE, text |-> text]

\* validate_text_length checking the Latin quota first
validate_text_length_swapped(text) ==
    LET chinese_chars   == CountChars(text, ChineseRange)
        english_letters == CountChars(text, EnglishRange)
    IN  IF english_letters > EnglishLimit
        THEN Raise("EnglishTooLong", english_letters, EnglishLimit)
        ELSE IF chinese_chars > ChineseLimit
        THEN Raise("ChineseTooLong", chinese_chars, ChineseLimit)
        ELSE [ok |-> TRUE, text |-> text]

\* validate_text_length as written
validate_text_length(text) ==
    LET chinese_chars   == CountChars(text, ChineseRange)
        english_letters == CountChars(text, EnglishRange)
    IN  IF chinese_chars > ChineseLimit
        THEN Raise("ChineseTooLong", chinese_chars, ChineseLimit)
        ELSE IF english_letters > EnglishLimit
        THEN Raise("EnglishTooLong", english_letters, EnglishLimit)
        ELSE [ok |-> TRUE, text |-> text]

-----------------------------------------------------------------------------
(* Bounded inputs.                                                         *)

MaxPayload == 4
ByteSamples == {0, 1, 2, 255}
LongLens == {219, 220, 221, 300}
RateSamples == {8000, 16000, 24000, 44100, 48000}

RECURSIVE SeqsOfLen(_, _)
SeqsOfLen(S, n) ==
    IF n = 0 THEN { << >> }
    ELSE { Append(s, x) : s \in SeqsOfLen(S, n - 1), x \in S }

SeqsUpTo(S, n) == UNION { SeqsOfLen(S, k) : k \in 0..n }

Payloads ==
    SeqsUpTo(ByteSamples, MaxPayload)
    \cup { [i \in 1..n |-> (i * 7) % 256] : n \in LongLens }

MaxRuns == 2
\* runs of the first and last code point of each class, with lengths at the
\* quota of the class, and long runs of the code points next to the classes
\* and of whitespace
ChineseSamples == {19968, 40959}
EnglishSamples == {65, 90, 97, 122}
OtherSamples == {32, 12288, 64, 91, 96, 123, 19967, 40960}
Runs ==
    [ch : ChineseSamples, n : {1, 150, 151}]
    \cup [ch : EnglishSamples, n : {1, 500, 501}]
    \cup [ch : OtherSamples, n : {501}]
Texts == SeqsUpTo(Runs, MaxRuns)

-----------------------------------------------------------------------------
(* Python values used by text_to_speech and main.                          *)

\* bool(x) of an Optional[str]: None and "" are false
Truthy(opt) == opt # None /\ opt[1] # ""

\* a or b
Or(a, b) == IF Truthy(a) THEN a ELSE b

\* os.environ.get(key): the value, or None
environ_get(key) == env[key]

\* os.environ.get(key, default): the value, or the default string
environ_get_or(key, default) == IF env[key] = None THEN default ELSE env[key][1]

\* int(s) on the strings the bounded environments hold; any other string
\* raises ValueError
IntText ==
    ("0" :> 0) @@ ("1" :> 1) @@ ("2" :> 2) @@ ("7" :> 7) @@ ("11" :> 11)
    @@ ("101001" :> 101001) @@ ("502003" :> 502003)

int(s) ==
    IF s \in DOMAIN IntText THEN [ok |-> TRUE, val |-> IntText[s]]
    ELSE [ok |-> FALSE, val |-> 0]

\* base64 text is a sequence of alphabet indices 0..63, Pad standing for "="
Pad == 64

RECURSIVE B64Groups(_)
B64Groups(d) ==
    IF Len(d) >= 4
    THEN << d[1] * 4 + d[2] \div 16, (d[2] % 16) * 16 + d[3] \div 4, (d[3] % 4) * 64 + d[4] >>
         \o B64Groups(SubSeq(d, 5, Len(d)))
    ELSE IF Len(d) = 3
    THEN << d[1] * 4 + d[2] \div 16, (d[2] % 16) * 16 + d[3] \div 4 >>
    ELSE IF Len(d) = 2
    THEN << d[1] * 4 + d[2] \div 16 >>
    ELSE << >>

\* base64.b64decode(s) for s made of data characters followed by padding:
\* the bytes, or binascii.Error (a ValueError)
b64decode(s) ==
    LET data == SelectSeq(s, LAMBDA c : c # Pad)
        pads == Len(s) - Len(data)
        rem  == Len(data) % 4
    IN  IF rem = 1 \/ (rem = 2 /\ pads < 2) \/ (rem = 3 /\ pads < 1)
        THEN [ok |-> FALSE, bytes |-> << >>]
        ELSE [ok |-> TRUE, bytes |-> B64Groups(data)]

\* os.path.abspath and os.path.dirname on [abs, parts]
Cwd == << "home", "user" >>
abspath(p) == IF p.abs THEN p ELSE [abs |-> TRUE, parts |-> Cwd \o p.parts]
dirname(p) == [abs |-> p.abs, parts |-> SubSeq(p.parts, 1, Len(p.parts) - 1)]

DefaultVoiceType == 502003
CloneVoiceType == 200000000
SampleRate == 24000

-----------------------------------------------------------------------------
(* Bounded inputs of a run.                                                *)

RelPath == [abs |-> FALSE, parts |-> << "out", "a.wav" >>]

Hello == << [ch |-> 32, n |-> 1], [ch |-> 104, n |-> 1], [ch |-> 101, n |-> 1],
            [ch |-> 108, n |-> 2], [ch |-> 111, n |-> 1], [ch |-> 12288, n |-> 1] >>

RunTexts ==
    { << >>,
      << [ch |-> 12288, n |-> 1], [ch |-> 32, n |-> 1] >>,
      Hello,
      << [ch |-> 20320, n |-> 150], [ch |-> 97, n |-> 500] >>,
      << [ch |-> 20320, n |-> 151] >>,
      << [ch |-> 97, n |-> 501] >>,
      << [ch |-> 20320, n |-> 151], [ch |-> 97, n |-> 501] >> }

Calls ==
    [ text             : RunTexts,
      output_path      : { RelPath },
      secret_id        : { None, Some(""), Some("ID2") },
      secret_key       : { None, Some("KEY2") },
      voice_type       : { None, Some(101002) },
      fast_voice_type  : { None, Some("clone-1") },
      speed            : { None, Some(0) },
      primary_language : { None, Some(3) },
      volume           : { None, Some(5) } ]

EnvsDirect ==
    [ TENCENT_SECRET_ID       : { None, Some("ID") },
      TENCENT_SECRET_KEY      : { None, Some("KEY") },
      TENCENT_VOICE_TYPE      : { None, Some("101001") },
      TENCENT_FAST_VOICE_TYPE : { None },
      TENCENT_TTS_SPEED       : { None, Some("7") },
      TENCENT_TTS_LANGUAGE    : { None, Some("2"), Some("abc") },
      TENCENT_TTS_VOLUME      : { None, Some("11") } ]

EnvsMain ==
    [ TENCENT_SECRET_ID       : { None, Some(""), Some("ID") },
      TENCENT_SECRET_KEY      : { None, Some("KEY") },
      TENCENT_VOICE_TYPE      : { None, Some("101001"), Some("abc") },
      TENCENT_FAST_VOICE_TYPE : { None, Some(""), Some("clone-2") },
      TENCENT_TTS_SPEED       : { None, Some("7") },
      TENCENT_TTS_LANGUAGE    : { None, Some("2"), Some("abc") },
      TENCENT_TTS_VOLUME      : { None, Some("11") } ]

Argvs ==
    { << "tts.py" >> }
    \cup { << "tts.py", t >> : t \in RunTexts }
    \cup { << "tts.py", t, RelPath >> : t \in RunTexts }

\* what the service may answer: base64 audio, or a TencentCloudSDKException
AudioSamples ==
    { << 0, 16, 0, 2, 0, 0, Pad, Pad >>,      \* "AQACAA==": 01 00 02 00
      << >>,                                  \* "": no samples
      << 63, 48, Pad, Pad >>,                 \* "/w==": ff
      << 0, 16, 0, 2, 0 >> }                  \* "AQACA": not base64

Responses ==
    { [ok |-> TRUE, Audio |-> a] : a \in AudioSamples }
    \cup { [ok |-> FALSE, Audio |-> << >>] }

-----------------------------------------------------------------------------
(* text_to_speech and main.                                                *)

NoCall ==
    [ text |-> << >>, output_path |-> RelPath, secret_id |-> None,
      secret_key |-> None, voice_type |-> None, fast_voice_type |-> None,
      speed |-> None, primary_language |-> None, volume |-> None ]

NoEnv ==
    [ TENCENT_SECRET_ID |-> None, TENCENT_SECRET_KEY |-> None,
      TENCENT_VOICE_TYPE |-> None, TENCENT_FAST_VOICE_TYPE |-> None,
      TENCENT_TTS_SPEED |-> None, TENCENT_TTS_LANGUAGE |-> None,
      TENCENT_TTS_VOLUME |-> None ]

NoFile == [state |-> "untouched", dir |-> None, path |-> RelPath, data |-> << >>]

Running ==
    [status |-> "running", err |-> "", code |-> None, diag |-> "",
     stdout |-> None, value |-> None]

\* parameters of text_to_speech bound to the arguments of a call, an omitted
\* voice_type taking its default
Bind(c) ==
    [ text |-> c.text, output_path |-> c.output_path,
      secret_id |-> c.secret_id, secret_key |-> c.secret_key,
      voice_type |-> IF c.voice_type = None THEN DefaultVoiceType ELSE c.voice_type[1],
      fast_voice_type |-> c.fast_voice_type,
      speed |-> c.speed, primary_language |-> c.primary_language,
      volume |-> c.volume, wav_data |-> << >> ]

ExcClass(err) ==
    CASE err \in {"MissingCredentials", "EmptyText", "ChineseTooLong",
                  "EnglishTooLong", "BadInt", "BadBase64"} -> "ValueError"
      [] err = "ServiceError" -> "TencentCloudSDKException"
      [] OTHER -> "Exception"

\* an exception leaving text_to_speech: to the caller, or to main's handlers,
\* each of which prints its diagnostic and exits with code 1
Raised(err) ==
    IF entry = "main"
    THEN [status |-> "exit", err |-> err, code |-> Some(1), diag |-> ExcClass(err),
          stdout |-> None, value |-> None]
    ELSE [status |-> "raised", err |-> err, code |-> None, diag |-> "",
          stdout |-> None, value |-> None]

EncIdle == encIn = << >> /\ encRate = 0 /\ encOut = << >>
ValIdle == valText = << >> /\ valRes = [ok |-> TRUE, text |-> << >>]

RunIdle ==
    /\ entry = "none"
    /\ argv = << >>
    /\ env = NoEnv
    /\ call = NoCall
    /\ loc = Bind(NoCall)
    /\ requests = << >>
    /\ resp = None
    /\ file = NoFile
    /\ outcome = Running
    /\ trace = << >>

\* the credential check failing only when both values are missing
CredentialsMissing_and(secret_id, secret_key) ==
    ~Truthy(secret_id) /\ ~Truthy(secret_key)

\* not secret_id or not secret_key
CredentialsMissing(secret_id, secret_key) ==
    ~Truthy(secret_id) \/ ~Truthy(secret_key)

\* the emptiness check without the trimming
TextIsEmpty_nostrip(text) == text = << >>

\* not text.strip()
TextIsEmpty(text) == strip(text) = << >>

\* the TextToVoiceRequest built from the local variables
BuildRequest(l) ==
    [ Text |-> strip(l.text), ModelType |-> 1, VoiceType |-> l.voice_type,
      Codec |-> "pcm", SampleRate |-> SampleRate, Speed |-> l.speed[1],
      PrimaryLanguage |-> l.primary_language[1], Volume |-> l.volume[1],
      FastVoiceType |-> IF Truthy(l.fast_voice_type) THEN l.fast_voice_type ELSE None ]

InitMain ==
    /\ pc = "main"
    /\ entry = "main"
    /\ argv \in Argvs
    /\ env \in EnvsMain
    /\ call = NoCall
    /\ loc = Bind(NoCall)

InitDirect ==
    /\ pc = "tts_cred"
    /\ entry = "direct"
    /\ argv = << >>
    /\ env \in EnvsDirect
    /\ call \in Calls
    /\ loc = Bind(call)

Init ==
    /\ InitMain \/ InitDirect
    /\ requests = << >>
    /\ resp = None
    /\ file = NoFile
    /\ outcome = Running
    /\ trace = << >>
    /\ EncIdle
    /\ ValIdle

Main ==
    /\ pc = "main"
    /\ IF Len(argv) < 3
       THEN /\ outcome' = [Running EXCEPT !.status = "exit", !.err = "Usage",
                                          !.code = Some(1), !.diag = "usage"]
            /\ pc' = "done"
            /\ UNCHANGED <<call, loc>>
       ELSE LET voice    == int(environ_get_or("TENCENT_VOICE_TYPE", "502003"))
                fast     == environ_get("TENCENT_FAST_VOICE_TYPE")
                speed    == int(environ_get_or("TENCENT_TTS_SPEED", "0"))
                language == int(environ_get_or("TENCENT_TTS_LANGUAGE", "1"))
                volume   == int(environ_get_or("TENCENT_TTS_VOLUME", "0"))
                args     ==
                    [ text |-> argv[2], output_path |-> argv[3],
                      secret_id |-> None, secret_key |-> None,
                      voice_type |-> Some(IF Truthy(fast) THEN CloneVoiceType ELSE voice.val),
                      fast_voice_type |-> fast,
                      speed |-> Some(speed.val),
                      primary_language |-> Some(language.val),
                      volume |-> Some(volume.val) ]
            IN  IF ~voice.ok \/ ~speed.ok \/ ~language.ok \/ ~volume.ok
                THEN /\ outcome' = [Running EXCEPT !.status = "exit", !.err = "BadInt",
                                                   !.code = Some(1), !.diag = "traceback"]
                     /\ pc' = "done"
                     /\ UNCHANGED <<call, loc>>
                ELSE /\ call' = args
                     /\ loc' = Bind(args)
                     /\ pc' = "tts_cred"
                     /\ UNCHANGED outcome
    /\ UNCHANGED <<entry, argv, env, requests, resp, file, trace, encVars, valVars>>

TTS_Credentials ==
    /\ pc = "tts_cred"
    /\ LET secret_id  == Or(loc.secret_id, environ_get("TENCENT_SECRET_ID"))
           secret_key == Or(loc.secret_key, environ_get("TENCENT_SECRET_KEY"))
       IN  /\ loc' = [loc EXCEPT !.secret_id = secret_id, !.secret_key = secret_key]
           /\ IF CredentialsMissing(secret_id, secret_key)
              THEN outcome' = Raised("MissingCredentials") /\ pc' = "done"
              ELSE pc' = "tts_text" /\ UNCHANGED outcome
    /\ trace' = Append(trace, "credentials")
    /\ UNCHANGED <<entry, argv, env, call, requests, resp, file, encVars, valVars>>

TTS_Validate ==
    /\ pc = "tts_text"
    /\ IF TextIsEmpty(loc.text)
       THEN /\ outcome' = Raised("EmptyText")
            /\ pc' = "done"
            /\ trace' = Append(trace, "empty")
       ELSE LET v == validate_text_length(strip(loc.text))
            IN  /\ trace' = trace \o << "empty", "length" >>
                /\ IF v.ok
                   THEN pc' = "tts_config" /\ UNCHANGED outcome
                   ELSE outcome' = Raised(v.err) /\ pc' = "done"
    /\ UNCHANGED <<entry, argv, env, call, loc, requests, resp, file, encVars, valVars>>

TTS_ReadConfig ==
    /\ pc = "tts_config"
    /\ LET speed    == IF loc.speed = None
                       THEN int(environ_get_or("TENCENT_TTS_SPEED", "0"))
                       ELSE [ok |-> TRUE, val |-> loc.speed[1]]
           language == IF loc.primary_language = None
                       THEN int(environ_get_or("TENCENT_TTS_LANGUAGE", "1"))
                       ELSE [ok |-> TRUE, val |-> loc.primary_language[1]]
           volume   == IF loc.volume = None
                       THEN int(environ_get_or("TENCENT_TTS_VOLUME", "0"))
                       ELSE [ok |-> TRUE, val |-> loc.volume[1]]
       IN  IF ~speed.ok \/ ~language.ok \/ ~volume.ok
           THEN outcome' = Raised("BadInt") /\ pc' = "done" /\ UNCHANGED loc
           ELSE /\ loc' = [loc EXCEPT !.speed = Some(speed.val),
                                      !.primary_language = Some(language.val),
                                      !.volume = Some(volume.val)]
                /\ pc' = "tts_call"
                /\ UNCHANGED outcome
    /\ UNCHANGED <<entry, argv, env, call, requests, resp, file, trace, encVars, valVars>>

TTS_CallService ==
    /\ pc = "tts_call"
    /\ requests' = Append(requests, BuildRequest(loc))
    /\ trace' = Append(trace, "service")
    /\ \E r \in Responses :
          /\ resp' = Some(r)
          /\ IF r.ok
             THEN pc' = "tts_decode" /\ UNCHANGED outcome
             ELSE outcome' = Raised("ServiceError") /\ pc' = "done"
    /\ UNCHANGED <<entry, argv, env, call, loc, file, encVars, valVars>>

TTS_Decode ==
    /\ pc = "tts_decode"
    /\ LET pcm_data == b64decode(resp[1].Audio)
       IN  IF pcm_data.ok
           THEN /\ loc' = [loc EXCEPT !.wav_data = pcm_to_wav(pcm_data.bytes, SampleRate)]
                /\ pc' = "tts_mkdir"
                /\ UNCHANGED outcome
           ELSE outcome' = Raised("BadBase64") /\ pc' = "done" /\ UNCHANGED loc
    /\ UNCHANGED <<entry, argv, env, call, requests, resp, file, trace, encVars, valVars>>

\* os.path.abspath, then os.makedirs of the directory, which may fail with
\* OSError
TTS_MakeDirs ==
    /\ pc = "tts_mkdir"
    /\ loc' = [loc EXCEPT !.output_path = abspath(loc.output_path)]
    /\ \E ok \in BOOLEAN :
          IF ok
          THEN /\ file' = [file EXCEPT !.dir = Some(dirname(abspath(loc.output_path)))]
               /\ pc' = "tts_open"
               /\ UNCHANGED outcome
          ELSE outcome' = Raised("OSError") /\ pc' = "done" /\ UNCHANGED file
    /\ UNCHANGED <<entry, argv, env, call, requests, resp, trace, encVars, valVars>>

\* open(output_path, "wb") creates or empties the file, or fails with OSError
TTS_Open ==
    /\ pc = "tts_open"
    /\ \E ok \in BOOLEAN :
          IF ok
          THEN /\ file' = [file EXCEPT !.state = "open", !.path = loc.output_path,
                                       !.data = << >>]
               /\ pc' = "tts_write"
               /\ UNCHANGED outcome
          ELSE outcome' = Raised("OSError") /\ pc' = "done" /\ UNCHANGED file
    /\ UNCHANGED <<entry, argv, env, call, loc, requests, resp, trace, encVars, valVars>>

\* the write with its error ignored
TTS_Write_swallow ==
    /\ pc = "tts_write"
    /\ \/ file' = [file EXCEPT !.state = "written", !.data = loc.wav_data]
       \/ \E k \in {0, Len(loc.wav_data) - 1} :
             file' = [file EXCEPT !.state = "partial",
                                  !.data = SubSeq(loc.wav_data, 1, k)]
    /\ pc' = "tts_return"
    /\ UNCHANGED <<entry, argv, env, call, loc, requests, resp, trace, outcome,
                   encVars, valVars>>

\* f.write(wav_data) and the close ending the with block: all the bytes, or
\* OSError with only a part of them in the file
TTS_Write ==
    /\ pc = "tts_write"
    /\ \/ /\ file' = [file EXCEPT !.state = "written", !.data = loc.wav_data]
          /\ pc' = "tts_return"
          /\ UNCHANGED outcome
       \/ \E k \in {0, Len(loc.wav_data) - 1} :
             /\ file' = [file EXCEPT !.state = "partial",
                                     !.data = SubSeq(loc.wav_data, 1, k)]
             /\ outcome' = Raised("OSError")
             /\ pc' = "done"
    /\ UNCHANGED <<entry, argv, env, call, loc, requests, resp, trace, encVars, valVars>>

\* return output_path; in main, print(result_path), which may fail with
\* OSError, and the normal end of the process
TTS_Return ==
    /\ pc = "tts_return"
    /\ IF entry = "main"
       THEN \E ok \in BOOLEAN :
               outcome' = IF ok
                          THEN [Running EXCEPT !.status = "exit", !.code = Some(0),
                                               !.stdout = Some(loc.output_path)]
                          ELSE Raised("OSError")
       ELSE outcome' = [Running EXCEPT !.status = "returned",
                                       !.value = Some(loc.output_path)]
    /\ pc' = "done"
    /\ UNCHANGED <<entry, argv, env, call, loc, requests, resp, file, trace, encVars, valVars>>

Next ==
    \/ Main
    \/ TTS_Credentials
    \/ TTS_Validate
    \/ TTS_ReadConfig
    \/ TTS_CallService
    \/ TTS_Decode
    \/ TTS_MakeDirs
    \/ TTS_Open
    \/ TTS_Write
    \/ TTS_Return

Spec == Init /\ [][Next]_vars

-----------------------------------------------------------------------------
(* Specification of the encoder alone.                                     *)

InitWav ==
    /\ pc = "enc_call"
    /\ encIn \in Payloads
    /\ encRate \in RateSamples
    /\ encOut = << >>
    /\ ValIdle
    /\ RunIdle

Encode ==
    /\ pc = "enc_call"
    /\ encOut' = pcm_to_wav(encIn, encRate)
    /\ pc' = "enc_done"
    /\ UNCHANGED <<encIn, encRate, valVars, runVars>>

NextWav == Encode

SpecWav == InitWav /\ [][NextWav]_vars

(* Specification of the validator alone.                                   *)

InitValidate ==
    /\ pc = "val_call"
    /\ valText \in Texts
    /\ valRes = [ok |-> TRUE, text |-> << >>]
    /\ EncIdle
    /\ RunIdle

Validate ==
    /\ pc = "val_call"
    /\ valRes' = validate_text_length(valText)
    /\ pc' = "val_done"
    /\ UNCHANGED <<valText, encVars, runVars>>

NextValidate == Validate

SpecValidate == InitValidate /\ [][NextValidate]_vars

-----------------------------------------------------------------------------
(* Reading a container back at its fixed field offsets.                    *)

Unpack32(b, at) == b[at] + 256 * b[at + 1] + 65536 * b[at + 2] + 16777216 * b[at + 3]
Unpack16(b, at) == b[at] + 256 * b[at + 1]

\* C1: for every payload of length L and every sample rate, the total-size
\* field (bytes 4..7) of pcm_to_wav's result is 36 + L and its data-size
\* field (bytes 40..43) is L; for L = 0 the result is the header alone.
C1_HeaderSizes ==
    pc = "enc_done" =>
        /\ Len(encOut) >= 44
        /\ Unpack32(encOut, 5) = 36 + Len(encIn)
        /\ Unpack32(encOut, 41) = Len(encIn)
        /\ (Len(encIn) = 0 => Len(encOut) = 44)

C1_Witness ==
    /\ pc = "enc_done"
    /\ Len(encIn) = 220
    /\ SubSeq(encOut, 5, 8) = << 0, 1, 0, 0 >>
    /\ SubSeq(encOut, 41, 44) = << 220, 0, 0, 0 >>

\* C2: splitting pcm_to_wav(p, R) at the fixed offsets recovers channel
\* count 1, sample rate R, byte rate 2R, block alignment 2, 16 bits per
\* sample and the payload p byte for byte; the result is 44 + len(p) bytes.
C2_RoundTrip ==
    pc = "enc_done" =>
        /\ Len(encOut) = 44 + Len(encIn)
        /\ SubSeq(encOut, 1, 4) = TagRIFF
        /\ SubSeq(encOut, 9, 16) = TagWAVE \o TagFmt
        /\ Unpack32(encOut, 17) = 16
        /\ Unpack16(encOut, 21) = 1
        /\ Unpack16(encOut, 23) = 1
        /\ Unpack32(encOut, 25) = encRate
        /\ Unpack32(encOut, 29) = 2 * encRate
        /\ Unpack16(encOut, 33) = 2
        /\ Unpack16(encOut, 35) = 16
        /\ SubSeq(encOut, 37, 40) = TagData
        /\ SubSeq(encOut, 45, Len(encOut)) = encIn

C2_Witness ==
    /\ pc = "enc_done"
    /\ encIn = << 1, 0, 2, 0 >>
    /\ encRate = 24000
    /\ encOut = << 82, 73, 70, 70,   40, 0, 0, 0,   87, 65, 86, 69,
                   102, 109, 116, 32,   16, 0, 0, 0,   1, 0,   1, 0,
                   192, 93, 0, 0,   128, 187, 0, 0,   2, 0,   16, 0,
                   100, 97, 116, 97,   4, 0, 0, 0,   1, 0, 2, 0 >>

\* C6: validate_text_length accepts a text iff it holds at most 150
\* characters of U+4E00..U+9FFF and at most 500 ASCII letters; a rejection
\* reports the offending count and its limit; the CJK quota is reported
\* when exceeded, otherwise the Latin one; other characters never count.
SumRuns(text, lo, hi) ==
    LET idx == { i \in 1..Len(text) : text[i].ch >= lo /\ text[i].ch <= hi }
        RECURSIVE Sum(_)
        Sum(I) == IF I = {} THEN 0
                  ELSE LET i == CHOOSE j \in I : TRUE IN text[i].n + Sum(I \ {i})
    IN  Sum(idx)

C6_Quotas ==
    pc = "val_done" =>
        LET cjk   == SumRuns(valText, 19968, 40959)
            latin == SumRuns(valText, 65, 90) + SumRuns(valText, 97, 122)
        IN  /\ valRes.ok <=> (cjk <= 150 /\ latin <= 500)
            /\ valRes.ok => valRes.text = valText
            /\ cjk > 150 => (~valRes.ok /\ valRes.count = cjk /\ valRes.limit = 150)
            /\ (cjk <= 150 /\ latin > 500) =>
                   (~valRes.ok /\ valRes.count = latin /\ valRes.limit = 500)

C6_Witness ==
    /\ pc = "val_done"
    /\ valText = << [ch |-> 19968, n |-> 150], [ch |-> 40959, n |-> 1] >>
    /\ valRes = [ok |-> FALSE, err |-> "ChineseTooLong", count |-> 151, limit |-> 150]

-----------------------------------------------------------------------------
(* Properties of a run.                                                    *)

Done == pc = "done"

\* the text given to the run
InputText ==
    IF entry = "direct" THEN call.text
    ELSE IF Len(argv) >= 2 THEN argv[2] ELSE << >>

\* no usable access-key identifier, or no usable secret, in the arguments
\* and the environment together
NoSecretId == ~Truthy(call.secret_id) /\ ~Truthy(env.TENCENT_SECRET_ID)
NoSecretKey == ~Truthy(call.secret_key) /\ ~Truthy(env.TENCENT_SECRET_KEY)

Succeeded ==
    \/ entry = "main" /\ outcome.status = "exit" /\ outcome.code = Some(0)
    \/ entry = "direct" /\ outcome.status = "returned"

Failed ==
    \/ entry = "main" /\ outcome.status = "exit" /\ outcome.code # None
                      /\ outcome.code # Some(0)
    \/ entry = "direct" /\ outcome.status = "raised"

ReportedPath == IF entry = "main" THEN outcome.stdout ELSE outcome.value

\* the destination holds the complete container of the answered audio
CompleteFile ==
    /\ Len(requests) = 1
    /\ resp # None
    /\ resp[1].ok
    /\ b64decode(resp[1].Audio).ok
    /\ file.state = "written"
    /\ file.path = [abs |-> TRUE, parts |-> << "home", "user", "out", "a.wav" >>]
    /\ Len(file.data) = 44 + Len(b64decode(resp[1].Audio).bytes)
    /\ SubSeq(file.data, 1, 4) = << 82, 73, 70, 70 >>
    /\ SubSeq(file.data, 45, Len(file.data)) = b64decode(resp[1].Audio).bytes
    /\ ReportedPath = Some(file.path)

\* C3: a request carrying a voice-clone identifier always carries the
\* sentinel voice identifier 200000000, on every entry path.
C3_CloneCoupling ==
    \A i \in 1..Len(requests) :
        requests[i].FastVoiceType # None => requests[i].VoiceType = 200000000

\* C4 as claimed: a finished run either succeeded with the complete file
\* written and reported, or failed with no file written at the destination.
C4_AllOrNothing ==
    Done =>
        \/ Succeeded /\ CompleteFile
        \/ Failed /\ file.state = "untouched"

\* C4 as amended: a finished run either succeeded with the complete file
\* written and reported, or failed; a failure other than an I/O error
\* (OSError) leaves the destination untouched, and only an I/O error raised
\* by opening or writing the file or printing the path may leave an empty,
\* truncated or complete file behind.
C4_Amended ==
    Done =>
        /\ Succeeded \/ Failed
        /\ Succeeded => CompleteFile
        /\ Failed =>
              /\ outcome.err # ""
              /\ ReportedPath = None
              /\ outcome.err # "OSError" => file.state = "untouched"
              /\ file.state = "partial" => Len(file.data) < Len(loc.wav_data)

C4_Witness ==
    /\ Done
    /\ entry = "main"
    /\ outcome.code = Some(1)
    /\ outcome.err = "OSError"
    /\ file.state = "partial"
    /\ Len(file.data) = 47

\* C5: with the access-key identifier or the secret unresolvable, no
\* request is ever submitted and no file is written, the run does not
\* succeed, and text_to_speech ends with the missing-credentials error.
C5_NoCredentialsNoCall ==
    (NoSecretId \/ NoSecretKey) =>
        /\ requests = << >>
        /\ file.state = "untouched"
        /\ Done => Failed
        /\ (Done /\ trace # << >>) => outcome.err = "MissingCredentials"

C5_Witness ==
    /\ Done
    /\ NoSecretId
    /\ ~NoSecretKey
    /\ outcome.err = "MissingCredentials"
    /\ requests = << >>

\* C7: every request submitted carries the trimmed input text, non-empty
\* and within both quotas; a text that is empty after trimming or exceeds
\* a quota never leads to a request, and once the credentials are resolved
\* it ends the run with a validation error.
C7_ValidatedBeforeCall ==
    LET t      == InputText
        cjk    == SumRuns(t, 19968, 40959)
        latin  == SumRuns(t, 65, 90) + SumRuns(t, 97, 122)
        blank  == \A i \in 1..Len(t) : IsSpace(t[i].ch)
        bad    == blank \/ cjk > 150 \/ latin > 500
    IN  /\ bad => requests = << >>
        /\ \A i \in 1..Len(requests) :
              LET sent == requests[i].Text
              IN  /\ sent # << >>
                  /\ ~IsSpace(sent[1].ch)
                  /\ ~IsSpace(sent[Len(sent)].ch)
                  /\ \E a, b \in 0..Len(t) :
                        /\ t = SubSeq(t, 1, a) \o sent \o SubSeq(t, Len(t) - b + 1, Len(t))
                        /\ \A j \in (1..a) \cup ((Len(t) - b + 1)..Len(t)) : IsSpace(t[j].ch)
        /\ (Done /\ bad /\ ~(NoSecretId \/ NoSecretKey) /\ trace # << >>) =>
              /\ Failed
              /\ outcome.err \in {"EmptyText", "ChineseTooLong", "EnglishTooLong"}

C7_Witness ==
    /\ Done
    /\ InputText = << [ch |-> 12288, n |-> 1], [ch |-> 32, n |-> 1] >>
    /\ outcome.err = "EmptyText"
    /\ requests = << >>

\* an explicit argument, the environment value, or the default
Explicit(field) == IF entry = "direct" THEN call[field] ELSE None
Precedence(field, key, default) ==
    IF Explicit(field) # None THEN Explicit(field)[1]
    ELSE IF env[key] # None THEN IntText[env[key][1]]
    ELSE default

\* C8: each request carries, for speed, volume, primary language and (when
\* no voice-clone identifier is sent) voice identifier, the explicit
\* argument if given, else the environment value if set, else the default
\* 0, 0, 1, 502003.
C8_Precedence ==
    \A i \in 1..Len(requests) :
        /\ requests[i].Speed = Precedence("speed", "TENCENT_TTS_SPEED", 0)
        /\ requests[i].Volume = Precedence("volume", "TENCENT_TTS_VOLUME", 0)
        /\ requests[i].PrimaryLanguage =
              Precedence("primary_language", "TENCENT_TTS_LANGUAGE", 1)
        /\ requests[i].FastVoiceType = None =>
              requests[i].VoiceType = Precedence("voice_type", "TENCENT_VOICE_TYPE", 502003)

\* C9: every request carries a speed in -2..6, a volume in -10..10, a
\* primary language in {1, 2} and sample rate 24000.
C9_Domains ==
    \A i \in 1..Len(requests) :
        /\ requests[i].Speed \in -2..6
        /\ requests[i].Volume \in -10..10
        /\ requests[i].PrimaryLanguage \in {1, 2}
        /\ requests[i].SampleRate = 24000

\* C10: text_to_speech checks credentials, then emptiness, then the CJK
\* quota, then the Latin quota, and the first failing check decides the
\* error; with credentials missing the text is never examined.
C10_CheckOrder ==
    (Done /\ trace # << >>) =>
        LET t       == InputText
            noCreds == NoSecretId \/ NoSecretKey
            blank   == \A i \in 1..Len(t) : IsSpace(t[i].ch)
            cjk     == SumRuns(t, 19968, 40959)
            latin   == SumRuns(t, 65, 90) + SumRuns(t, 97, 122)
            checks  == {"MissingCredentials", "EmptyText", "ChineseTooLong", "EnglishTooLong"}
        IN  /\ noCreds => (outcome.err = "MissingCredentials" /\ trace = << "credentials" >>)
            /\ (~noCreds /\ blank) =>
                  (outcome.err = "EmptyText" /\ trace = << "credentials", "empty" >>)
            /\ (~noCreds /\ ~blank /\ cjk > 150) => outcome.err = "ChineseTooLong"
            /\ (~noCreds /\ ~blank /\ cjk <= 150 /\ latin > 500) =>
                  outcome.err = "EnglishTooLong"
            /\ (~noCreds /\ ~blank /\ cjk <= 150 /\ latin <= 500) =>
                  outcome.err \notin checks

C10_Witness ==
    /\ Done
    /\ InputText = << [ch |-> 20320, n |-> 151], [ch |-> 97, n |-> 501] >>
    /\ ~(NoSecretId \/ NoSecretKey)
    /\ outcome.err = "ChineseTooLong"
    /\ trace = << "credentials", "empty", "length" >>

====
